---- MODULE Spec2Model ----
(***************************************************************************)
(* Chapter_1/1_Greatest_common_divisor.ipynb: the Euclidean gcd, the three  *)
(* integer-programming formulations gcd_ip0, gcd_ip1, gcd_ip2 and the       *)
(* property-based test test_gcd_function that compares them.                *)
(***************************************************************************)
EXTENDS Integers, FiniteSets, Sequences, TLC

VARIABLES
    a, b,             \* the arguments hypothesis draws for test_gcd_function
    gcd_a, gcd_b,     \* the locals a, b of the running call gcd(a, b)
    gcd_function,     \* the candidate passed to test_gcd_function
    pc,               \* position in test_gcd_function
    gcd_standard,     \* gcd(a, b)['gcd']
    model,            \* values of the pyomo model's variables after solve
    result,           \* result.solver of result = solver.solve(model)
    gcd_mip_result,   \* what gcd_function(a, b, solver=solver) returned
    outcome           \* how test_gcd_function ended

vars == <<a, b, gcd_a, gcd_b, gcd_function, pc, gcd_standard, model, result,
          gcd_mip_result, outcome>>

\* @given(a=st.integers(min_value=1, max_value=100), b=...)
min_value == 1
max_value == 100

\* Largest a, b drawn when the candidate is backed by a solver.
MaxN == 30
\* Largest a, b drawn in the runs where the solve may end without an optimum.
MaxNotOk == 6
\* gcd(a, b) called outside the test: a, b range over -MaxAbs..MaxAbs.
MaxAbs == 60
\* Unbounded integer variables (gcd_ip1) range over -CoefBound..CoefBound.
CoefBound == 20

\* A name not assigned yet: nothing reads it before its assignment.
None == <<>>

-----------------------------------------------------------------------------
(* Python arithmetic *)

Abs(x) == IF x >= 0 THEN x ELSE -x

\* The remainder that takes the sign of x (truncated division, as in C).
py_mod_truncated(x, y) ==
    IF x >= 0 THEN Abs(x) % Abs(y) ELSE -(Abs(x) % Abs(y))
\* x % y of Python ints: the result takes the sign of y.
py_mod(x, y) == IF y > 0 THEN x % y ELSE -((-x) % (-y))

Min2(x, y) == IF x <= y THEN x ELSE y

\* x / y of Python (true division), kept exact as a fraction.
py_truediv(x, y) == [num |-> x, den |-> y]

\* A value of an integer expression, as the same kind of number.
py_value(x) == [num |-> x, den |-> 1]

\* i == q for an int i and a number q (den > 0).
py_eq(i, q) == i * q.den = q.num

-----------------------------------------------------------------------------
(* gcd: the Euclidean algorithm *)

\* The step written as two assignments, a = b; b = a % b.
EuclidStepSequential(x, y) == <<y, py_mod(y, y)>>
\* The step without the remainder, a, b = b, a.
EuclidStepSwap(x, y) == <<y, x>>
\* a, b = b, a % b  (simultaneous assignment)
EuclidStep(x, y) == <<y, py_mod(x, y)>>

\* The other local returned, return {'gcd': b}.
gcd_return_b(x, y) == "gcd" :> y
\* return {'gcd': a}
gcd_result(x, y) == "gcd" :> x

\* gcd(a, b) as one call.
RECURSIVE gcd(_, _)
gcd(x, y) ==
    IF y # 0 THEN gcd(EuclidStep(x, y)[1], EuclidStep(x, y)[2])
    ELSE gcd_result(x, y)

-----------------------------------------------------------------------------
(* The solver: solver.solve(model) returns a minimiser of the objective over *)
(* the feasible assignments (sense=pyo.minimize).                            *)

\* result.solver of a solve that found an optimum (the recorded outputs).
solver_ok ==
    [status |-> "ok", termination_condition |-> "optimal",
     termination_message |->
         "Model was solved to optimality (subject to tolerances), and an optimal solution is available."]

\* result.solver of a solve that did not.
solver_not_ok ==
    {[status |-> "warning", termination_condition |-> "infeasible",
      termination_message |-> "Model was proven to be infeasible"],
     [status |-> "warning", termination_condition |-> "unbounded",
      termination_message |-> "Model was proven to be unbounded"],
     [status |-> "aborted", termination_condition |-> "error",
      termination_message |-> "Optimization was stopped"]}

\* gcd_ip0: A in [1, a], B in [1, b] integer; A*b == B*a; min A*b + B*a
ip0_domain(x, y) == [A : 1..x, B : 1..y]
ip0_constraint(x, y, s) == s.A * y = s.B * x
\* The objective with the sense reversed (maximize).
ip0_objective_max(x, y, s) == -(s.A * y + s.B * x)
ip0_objective(x, y, s) == s.A * y + s.B * x
ip0_feasible(x, y) == {s \in ip0_domain(x, y) : ip0_constraint(x, y, s)}
ip0_optimal(x, y) ==
    LET S == ip0_feasible(x, y)
    IN  {s \in S : \A t \in S : ip0_objective(x, y, s) <= ip0_objective(x, y, t)}

\* gcd_ip1: A, B integer, C positive integer; a*A + b*B == C; min A*a + B*b
\* A and B have no bounds and a recorded run returns 12345679000 for one of
\* them, more than a 32-bit integer holds: a value of A or B is kept as
\* thousands * 1000 + units.
wide(k, u) == [thousands |-> k, units |-> u]
\* x*p + y*q for wide p, q, as an integer.
wide_dot(x, p, y, q) ==
    (x * p.thousands + y * q.thousands) * 1000 + (x * p.units + y * q.units)
ip1_box == -CoefBound..CoefBound
ip1_constraint(x, y, s) == wide_dot(x, s.A, y, s.B) = s.C
\* C declared with domain=pyo.NonNegativeIntegers.
ip1_feasible_nonnegative(x, y) ==
    {s \in {[A |-> wide(0, i), B |-> wide(0, j), C |-> x * i + y * j] :
              i, j \in ip1_box} :
        s.C >= 0 /\ ip1_constraint(x, y, s)}
\* C is the one value the constraint leaves for it, and it is positive.
ip1_feasible(x, y) ==
    {s \in {[A |-> wide(0, i), B |-> wide(0, j), C |-> x * i + y * j] :
              i, j \in ip1_box} :
        s.C >= 1 /\ ip1_constraint(x, y, s)}
\* Values of A and B, inside the box or not, that some positive C completes
\* to a feasible assignment.
ip1_admits(x, y, s) ==
    \E c \in {wide_dot(x, s.A, y, s.B)} :
        c >= 1 /\ ip1_constraint(x, y, [A |-> s.A, B |-> s.B, C |-> c])
ip1_objective(x, y, s) == wide_dot(x, s.A, y, s.B)
ip1_optimal(x, y) ==
    LET S == ip1_feasible(x, y)
    IN  {s \in S : \A t \in S : ip1_objective(x, y, s) <= ip1_objective(x, y, t)}

\* The output recorded for gcd_ip1(2, 2, solver='cbc'): status ok, optimal,
\* 'A': -12345679000.0, 'B': 12345679000.0, 'gcd': 0.0, z 0.0.  The run does
\* not show C.  No other run of gcd_ip1 is recorded: for the other inputs the
\* model has the solver return an optimum, which the notebook does not show
\* either way, and no property below rests on it.
ip1_recorded(x, y) ==
    IF x = 2 /\ y = 2
    THEN {[A |-> wide(-12345679, 0), B |-> wide(12345679, 0)]}
    ELSE {}

\* gcd_ip2: A in [-b, b], B in [-a, a] integer; 1 <= A*a + B*b <= min(a, b)
ip2_domain(x, y) == [A : -y..y, B : -x..x]
\* The constraint with lower bound 0 instead of 1.
ip2_constraint_from_zero(x, y, s) ==
    /\ 0 <= s.A * x + s.B * y
    /\ s.A * x + s.B * y <= Min2(x, y)
ip2_constraint(x, y, s) ==
    /\ 1 <= s.A * x + s.B * y
    /\ s.A * x + s.B * y <= Min2(x, y)
ip2_objective(x, y, s) == s.A * x + s.B * y
ip2_feasible(x, y) == {s \in ip2_domain(x, y) : ip2_constraint(x, y, s)}
ip2_optimal(x, y) ==
    LET S == ip2_feasible(x, y)
    IN  {s \in S : \A t \in S : ip2_objective(x, y, s) <= ip2_objective(x, y, t)}

\* The results dictionary of gcd_ip0.
ip0_results(x, y, s, solver) ==
    "a" :> x @@ "b" :> y @@
    "gcd" :> py_truediv(x, s.A) @@
    "time" :> "elapsed_time" @@
    "Status" :> solver.status @@
    "Termination Condition" :> solver.termination_condition @@
    "Termination Message" :> solver.termination_message @@
    "Optimal Value (z)" :> ip0_objective(x, y, s)

\* The results dictionary of gcd_ip1.
ip1_results(x, y, s, solver) ==
    "a" :> x @@ "b" :> y @@
    "A" :> s.A @@ "B" :> s.B @@
    "gcd" :> py_value(wide_dot(x, s.A, y, s.B)) @@
    "time" :> "elapsed_time" @@
    "Status" :> solver.status @@
    "Termination Condition" :> solver.termination_condition @@
    "Termination Message" :> solver.termination_message @@
    "Optimal Value (z)" :> ip1_objective(x, y, s)

\* The results dictionary of gcd_ip2.
ip2_results(x, y, s, solver) ==
    "a" :> x @@ "b" :> y @@
    "A" :> s.A @@ "B" :> s.B @@
    "gcd" :> py_value(s.A * x + s.B * y) @@
    "time" :> "elapsed_time" @@
    "Status" :> solver.status @@
    "Termination Condition" :> solver.termination_condition @@
    "Termination Message" :> solver.termination_message @@
    "Optimal Value (z)" :> ip2_objective(x, y, s)

-----------------------------------------------------------------------------
(* test_gcd_function *)

\* The key the assertion message reads from the candidate's result.
MessageKey == "termination_message"

\* assert gcd_standard == gcd_mip, f"Failed ... {gcd_mip_result[MessageKey]}"
assert_outcome(x, y, standard, mip_result) ==
    IF py_eq(standard, mip_result["gcd"])
    THEN [kind |-> "Pass"]
    ELSE IF MessageKey \in DOMAIN mip_result
         THEN [kind |-> "AssertionError", a |-> x, b |-> y,
               gcd_ip |-> mip_result["gcd"], message |-> mip_result[MessageKey]]
         ELSE [kind |-> "KeyError", key |-> MessageKey]

InitTest(values, functions) ==
    /\ a \in values
    /\ b \in values
    /\ gcd_function \in functions
    /\ gcd_a = a
    /\ gcd_b = b
    /\ pc = "gcd_standard"
    /\ gcd_standard = 0   \* assigned by gcd_return before it is read
    /\ model = None
    /\ result = None
    /\ gcd_mip_result = None
    /\ outcome = None

\* gcd_standard = gcd(a, b)['gcd']: one iteration of  while b: a, b = b, a % b
gcd_while ==
    /\ pc = "gcd_standard"
    /\ gcd_b # 0
    /\ gcd_a' = EuclidStep(gcd_a, gcd_b)[1]
    /\ gcd_b' = EuclidStep(gcd_a, gcd_b)[2]
    /\ UNCHANGED <<a, b, gcd_function, pc, gcd_standard, model, result,
                   gcd_mip_result, outcome>>

\* gcd_standard = gcd(a, b)['gcd']: the loop ends, return {'gcd': a}
gcd_return ==
    /\ pc = "gcd_standard"
    /\ gcd_b = 0
    /\ gcd_standard' = gcd_result(gcd_a, gcd_b)["gcd"]
    /\ pc' = "gcd_mip_result"
    /\ UNCHANGED <<a, b, gcd_a, gcd_b, gcd_function, model, result,
                   gcd_mip_result, outcome>>

\* gcd_mip_result = gcd(a, b, solver=solver)
call_gcd ==
    /\ pc = "gcd_mip_result"
    /\ gcd_function = "gcd"
    /\ gcd_mip_result' = ("gcd" :> py_value(gcd(a, b)["gcd"]))
    /\ pc' = "assert"
    /\ UNCHANGED <<a, b, gcd_a, gcd_b, gcd_function, gcd_standard, model,
                   result, outcome>>

\* gcd_mip_result = gcd_ip0(a, b, solver=solver)
call_gcd_ip0 ==
    /\ pc = "gcd_mip_result"
    /\ gcd_function = "gcd_ip0"
    /\ \E s \in ip0_optimal(a, b) :
          /\ model' = s
          /\ gcd_mip_result' = ip0_results(a, b, s, solver_ok)
    /\ result' = solver_ok
    /\ pc' = "assert"
    /\ UNCHANGED <<a, b, gcd_a, gcd_b, gcd_function, gcd_standard, outcome>>

\* gcd_mip_result = gcd_ip1(a, b, solver=solver)
call_gcd_ip1 ==
    /\ pc = "gcd_mip_result"
    /\ gcd_function = "gcd_ip1"
    /\ \E s \in ip1_optimal(a, b) \cup ip1_recorded(a, b) :
          /\ model' = s
          /\ gcd_mip_result' = ip1_results(a, b, s, solver_ok)
    /\ result' = solver_ok
    /\ pc' = "assert"
    /\ UNCHANGED <<a, b, gcd_a, gcd_b, gcd_function, gcd_standard, outcome>>

\* gcd_mip_result = gcd_ip2(a, b, solver=solver)
call_gcd_ip2 ==
    /\ pc = "gcd_mip_result"
    /\ gcd_function = "gcd_ip2"
    /\ \E s \in ip2_optimal(a, b) :
          /\ model' = s
          /\ gcd_mip_result' = ip2_results(a, b, s, solver_ok)
    /\ result' = solver_ok
    /\ pc' = "assert"
    /\ UNCHANGED <<a, b, gcd_a, gcd_b, gcd_function, gcd_standard, outcome>>

\* gcd_mip_result = gcd_function(a, b, solver=solver) when solver.solve(model)
\* ends without an optimum: the function reads the variables and the status
\* all the same.  The variables hold some value of their declared range, or no
\* value, and then reading them raises out of the function and of the test.
call_solve_not_ok ==
    /\ pc = "gcd_mip_result"
    /\ \E solver \in solver_not_ok :
       /\ result' = solver
       /\ \/ /\ gcd_function = "gcd_ip0"
             /\ \E s \in ip0_domain(a, b) :
                   /\ model' = s
                   /\ gcd_mip_result' = ip0_results(a, b, s, solver)
             /\ pc' = "assert"
             /\ UNCHANGED outcome
          \/ /\ gcd_function = "gcd_ip2"
             /\ \E s \in ip2_domain(a, b) :
                   /\ model' = s
                   /\ gcd_mip_result' = ip2_results(a, b, s, solver)
             /\ pc' = "assert"
             /\ UNCHANGED outcome
          \/ /\ gcd_function = "gcd_ip1"
             /\ \E s \in {[A |-> wide(0, i), B |-> wide(0, j)] :
                         i, j \in ip1_box} :  \* C is never read
                   /\ model' = s
                   /\ gcd_mip_result' = ip1_results(a, b, s, solver)
             /\ pc' = "assert"
             /\ UNCHANGED outcome
          \/ /\ gcd_function \in {"gcd_ip0", "gcd_ip1", "gcd_ip2"}
             /\ model' = None
             /\ gcd_mip_result' = None
             /\ outcome' = [kind |-> "ValueError"]
             /\ pc' = "end"
    /\ UNCHANGED <<a, b, gcd_a, gcd_b, gcd_function, gcd_standard>>

\* gcd_mip = gcd_mip_result['gcd']; assert gcd_standard == gcd_mip, f"..."
test_assert ==
    /\ pc = "assert"
    /\ outcome' = assert_outcome(a, b, gcd_standard, gcd_mip_result)
    /\ pc' = "end"
    /\ UNCHANGED <<a, b, gcd_a, gcd_b, gcd_function, gcd_standard, model,
                   result, gcd_mip_result>>

\* test_gcd_function(gcd_function=gcd, solver='cbc')
Init == InitTest(min_value..max_value, {"gcd"})
Next == gcd_while \/ gcd_return \/ call_gcd \/ test_assert
Spec == Init /\ [][Next]_vars
\* The interpreter runs the call to its end: a step that can be taken is.
FairSpec == Spec /\ WF_vars(Next)

\* test_gcd_function(gcd_function=gcd_ip0 | gcd_ip1 | gcd_ip2, solver='cbc')
InitMip == InitTest(min_value..MaxN, {"gcd_ip0", "gcd_ip1", "gcd_ip2"})
NextMip ==
    \/ gcd_while
    \/ gcd_return
    \/ call_gcd_ip0
    \/ call_gcd_ip1
    \/ call_gcd_ip2
    \/ test_assert
SpecMip == InitMip /\ [][NextMip]_vars

\* The same runs with a solver that may end without an optimum.
InitNotOk == InitTest(min_value..MaxNotOk, {"gcd_ip0", "gcd_ip1", "gcd_ip2"})
NextNotOk == NextMip \/ call_solve_not_ok
SpecNotOk == InitNotOk /\ [][NextNotOk]_vars

\* gcd(a, b)['gcd'] for any integers a, b: gcd checks nothing about them.
InitAnyInt == InitTest(-MaxAbs..MaxAbs, {"gcd"})
NextAnyInt == gcd_while \/ gcd_return
SpecAnyInt == InitAnyInt /\ [][NextAnyInt]_vars /\ WF_vars(NextAnyInt)

-----------------------------------------------------------------------------
(* Properties *)

\* d divides n exactly (d a positive integer).
Divides(d, n) == d > 0 /\ n % d = 0

MaxOf(x, y) == IF x >= y THEN x ELSE y

\* The positive common divisors of x and y, x and y not both zero
\* (every positive integer divides 0).
CommonDivisors(x, y) ==
    {d \in 1..MaxOf(x, y) : Divides(d, x) /\ Divides(d, y)}

Greatest(S) == CHOOSE d \in S : \A e \in S : e <= d

\* The oracle has returned: gcd_standard holds gcd(a, b)['gcd'].
Returned == pc # "gcd_standard"

\* C1: for 1 <= a, b <= 100 the value the oracle returns divides both the
\* original a and the original b exactly.
C1_ResultDividesBoth ==
    Returned => Divides(gcd_standard, a) /\ Divides(gcd_standard, b)

C1_Witness ==
    /\ Returned
    /\ a = 48 /\ b = 18
    /\ gcd_standard = 6

\* C2: for 1 <= a, b <= 100 no integer strictly greater than the value the
\* oracle returns divides both a and b.
C2_ResultIsMaximal ==
    Returned =>
        \A d \in (gcd_standard + 1)..MaxOf(a, b) :
            ~(Divides(d, a) /\ Divides(d, b))

C2_Witness ==
    /\ Returned
    /\ a = 100 /\ b = 75
    /\ gcd_standard = 25
    /\ Divides(5, a) /\ Divides(5, b)

\* C3: the oracle is commutative: the run on (a, b) returns what gcd(b, a)
\* returns, also when a < b and the first iteration only swaps the two.
C3_Commutative ==
    Returned => gcd_standard = gcd(b, a)["gcd"]

C3_Witness ==
    /\ Returned
    /\ a = 18 /\ b = 48
    /\ EuclidStep(a, b) = <<b, a>>
    /\ gcd_standard = 6

\* C4: every iteration of the loop replaces b by a value that is at least 0
\* and strictly smaller than the current b, and the loop ends: b = 0 is
\* reached and a result is returned.
C4_Terminates ==
    /\ [][gcd_while => (0 <= gcd_b' /\ gcd_b' < gcd_b)]_vars
    /\ <>(gcd_b = 0 /\ Returned)

C4_Witness ==
    /\ a = 13 /\ b = 19
    /\ gcd_b = 0
    /\ Returned
    /\ gcd_standard = 1

\* C9: in every state of the loop the pair (a, b) of the oracle has the common
\* divisors of the arguments it was called with, and the value returned on
\* exit is the greatest of them.
C9_LoopInvariant ==
    /\ pc = "gcd_standard" =>
          CommonDivisors(gcd_a, gcd_b) = CommonDivisors(a, b)
    /\ Returned => gcd_standard = Greatest(CommonDivisors(a, b))

C9_Witness ==
    /\ pc = "gcd_standard"
    /\ a = 48 /\ b = 18
    /\ gcd_a = 12 /\ gcd_b = 6

\* test_gcd_function compared the two values and they differ.
Mismatch ==
    /\ pc = "end"
    /\ gcd_mip_result # None
    /\ ~py_eq(gcd_standard, gcd_mip_result["gcd"])

\* C5: on a mismatch the outcome is the assertion failure carrying a, b and
\* the candidate's gcd, with the placeholder "not available" when the result
\* has no termination message under the key read; never a missing-key error.
C5_MismatchIsAssertionError ==
    Mismatch =>
        /\ outcome.kind = "AssertionError"
        /\ outcome.a = a /\ outcome.b = b
        /\ outcome.gcd_ip = gcd_mip_result["gcd"]
        /\ MessageKey \notin DOMAIN gcd_mip_result =>
              outcome.message = "not available"

\* The solve of the candidate reported a status other than ok / optimal.
SolveNotOk ==
    /\ result # None
    /\ ~(result.status = "ok" /\ result.termination_condition = "optimal")

\* C6: when the candidate's solve reports a status other than ok / optimal the
\* outcome is a candidate failure, not Pass and not a mismatch: no numeric
\* comparison is made with the value the candidate put under 'gcd'.
C6_NotOkIsCandidateFailure ==
    (pc = "end" /\ SolveNotOk) =>
        outcome.kind \notin {"Pass", "AssertionError", "KeyError"}

\* C7: with gcd_ip0, at every optimal solution the reported a/A is an integer,
\* equals b/B and equals the oracle's gcd(a, b), and the test passes.
C7_Ip0EqualsOracle ==
    (gcd_function = "gcd_ip0" /\ pc = "end") =>
        /\ Divides(model.A, a)
        /\ Divides(model.B, b)
        /\ a \div model.A = b \div model.B
        /\ a \div model.A = gcd_standard
        /\ py_eq(gcd_standard, gcd_mip_result["gcd"])
        /\ outcome.kind = "Pass"

C7_Witness ==
    /\ gcd_function = "gcd_ip0"
    /\ pc = "end"
    /\ a = 6 /\ b = 4
    /\ model = [A |-> 3, B |-> 2]
    /\ gcd_mip_result["gcd"] = py_truediv(6, 3)
    /\ outcome.kind = "Pass"

\* C8: with gcd_ip2 the model is feasible, its minimum objective value
\* A*a + B*b equals the oracle's gcd(a, b), and the test passes.
C8_Ip2EqualsOracle ==
    gcd_function = "gcd_ip2" =>
        /\ pc = "gcd_mip_result" => ip2_feasible(a, b) # {}
        /\ pc = "end" =>
              /\ ip2_objective(a, b, model) = gcd_standard
              /\ gcd_mip_result["Optimal Value (z)"] = gcd_standard
              /\ outcome.kind = "Pass"

C8_Witness ==
    /\ gcd_function = "gcd_ip2"
    /\ pc = "end"
    /\ a = 6 /\ b = 4
    /\ model = [A |-> 1, B |-> -1]
    /\ outcome.kind = "Pass"

\* C10: the bounds of gcd_ip2 make the solution unique: the model has exactly
\* one optimal assignment (A, B).
C10_Ip2OptimumUnique ==
    (gcd_function = "gcd_ip2" /\ pc = "end") =>
        Cardinality(ip2_optimal(a, b)) = 1

\* C11: for the model gcd_ip1 builds the objective A*a + B*b is at least 1 on
\* the feasible set and its minimum is gcd(a, b); an assignment with
\* A*a + B*b = 0, such as the one recorded for (2, 2), is not feasible.
C11_Ip1MinimumIsGcd ==
    gcd_function = "gcd_ip1" =>
        /\ pc = "gcd_mip_result" =>
              /\ \A s \in ip1_feasible(a, b) : ip1_objective(a, b, s) >= 1
              /\ ip1_optimal(a, b) # {}
              /\ \A s \in ip1_optimal(a, b) :
                    ip1_objective(a, b, s) = gcd_standard
              /\ \A s \in ip1_feasible(a, b) : ip1_admits(a, b, s)
        /\ (pc = "end" /\ result = solver_ok) =>
              /\ ip1_objective(a, b, model) = 0 => ~ip1_admits(a, b, model)
              /\ ip1_admits(a, b, model) =>
                    ip1_objective(a, b, model) >= gcd_standard

C11_Witness ==
    /\ gcd_function = "gcd_ip1"
    /\ pc = "end"
    /\ a = 2 /\ b = 2
    /\ gcd_standard = 2
    /\ model = [A |-> wide(-12345679, 0), B |-> wide(12345679, 0)]
    /\ gcd_mip_result["gcd"] = py_value(0)
    /\ ip1_objective(a, b, model) = 0
    /\ ~ip1_admits(a, b, model)
    /\ [A |-> wide(0, 0), B |-> wide(0, 1), C |-> 2] \in ip1_optimal(a, b)

\* gcd(|x|, |y|) of the integers: the greatest common divisor, and 0 for 0, 0.
AbsGcd(x, y) ==
    IF x = 0 /\ y = 0 THEN 0
    ELSE Greatest(CommonDivisors(Abs(x), Abs(y)))

\* C12: for any integers a, b, zero and negative included, the oracle ends
\* without raising: every remainder is 0 or has the sign of the divisor, so
\* |b| strictly decreases; the value returned has absolute value
\* gcd(|a|, |b|), and is a itself when b = 0 (0 for 0, 0).
C12_AnyIntegers ==
    /\ [][gcd_while =>
            /\ Abs(gcd_b') < Abs(gcd_b)
            /\ gcd_b' = 0 \/ (gcd_b' > 0) = (gcd_b > 0)]_vars
    /\ <>Returned
    /\ [](Returned =>
            /\ Abs(gcd_standard) = AbsGcd(a, b)
            /\ b = 0 => gcd_standard = a)

\* The value returned can be negative: gcd(4, -6) is -2.
C12_Witness ==
    /\ Returned
    /\ a = 4 /\ b = -6
    /\ gcd_standard = -2

====
